---- MODULE Spec2Model ----
(***************************************************************************)
(* Model of shuttle's cooperatively scheduled reader-writer lock           *)
(* (src/sync/rwlock.rs).  One RwLock shared by a fixed set of tasks.       *)
(* Every action is the code a task runs between two scheduling points      *)
(* (Execution::switch); the scheduler runs one task at a time and resumes  *)
(* only tasks whose state is Runnable.  User code between two lock         *)
(* operations may itself contain scheduling points, so the operations of   *)
(* different tasks interleave freely.  A panic ends the execution: it is   *)
(* recorded in `failed` and no further step is taken.                      *)
(***************************************************************************)
EXTENDS Naturals, FiniteSets, TLC

\* ---------------------------------------------------------------- bounds
NumTasks == 3
MaxAcq == 5
NumValues == 2

Tasks == 1..NumTasks
Values == 0..(NumValues - 1)
\* the value handed to RwLock::new
InitValue == 0

VARIABLES
    holder,           \* RwLockState.holder
    waiting_readers,  \* RwLockState.waiting_readers
    waiting_writers,  \* RwLockState.waiting_writers
    task_state,       \* scheduler's per-task state: "Runnable" / "Blocked"
    pc,               \* where each task stands
    write,            \* argument `write` of the lock() call a task is in
    guard,            \* guard on `inner` a task owns: "none" / "read" / "write"
    inner,            \* the protected value
    modified,         \* has a write guard stored into the value
    remaining,        \* read() / write() calls the tasks may still make
    consumed,         \* into_inner() has returned
    returned,         \* value into_inner() returned
    failed,           \* panic that ended the execution, or "none"
    yields,           \* Execution::switch calls of the call a task is in
    woken,            \* history: the waiters the last guard drop visited
    winners           \* history: the tasks of `woken` that committed since

vars == <<holder, waiting_readers, waiting_writers, task_state, pc, write,
          guard, inner, modified, remaining, consumed, returned, failed,
          yields, woken, winners>>

\* ---------------------------------------------------------- RwLockHolder
NoTask == 0
HolderNone == [kind |-> "None", readers |-> {}, writer |-> NoTask]
HolderRead(readers) == [kind |-> "Read", readers |-> readers, writer |-> NoTask]
HolderWrite(writer) == [kind |-> "Write", readers |-> {}, writer |-> writer]
\* not a holder: the outcome of a match arm that panics
HolderPanic == [kind |-> "Panic", readers |-> {}, writer |-> NoTask]

\* ------------------------------------------- scheduler task primitives
\* Task::block: the task is not runnable until it is unblocked
block(ts, tid) == [ts EXCEPT ![tid] = "Blocked"]
\* Task::unblock: unconditionally runnable
unblock(ts, tid) == [ts EXCEPT ![tid] = "Runnable"]
\* Task::maybe_unblock: runnable if it was blocked, otherwise untouched
maybe_unblock(ts, tid) ==
    IF ts[tid] = "Blocked" THEN [ts EXCEPT ![tid] = "Runnable"] ELSE ts

\* ------------------------------------------------------------ RwLock::new
Init ==
    /\ holder = HolderNone
    /\ waiting_readers = {}
    /\ waiting_writers = {}
    /\ task_state = [t \in Tasks |-> "Runnable"]
    /\ pc = [t \in Tasks |-> "idle"]
    /\ write = [t \in Tasks |-> FALSE]
    /\ guard = [t \in Tasks |-> "none"]
    /\ inner = InitValue
    /\ modified = FALSE
    /\ remaining = MaxAcq
    /\ consumed = FALSE
    /\ returned = InitValue
    /\ failed = "none"
    /\ yields = [t \in Tasks |-> 0]
    /\ woken = {}
    /\ winners = {}

\* a task enters read(), write() or a guard's drop
call_enter(y, me) == [y EXCEPT ![me] = 0]

\* mutant: the call goes on without a scheduling point
switch_skipped(y, me) == y

\* Execution::switch: the task passes a scheduling point
switch(y, me) == [y EXCEPT ![me] = @ + 1]

\* the execution goes on: nothing panicked and the lock still exists
Live == failed = "none" /\ ~consumed

\* ------------------------------------------------ lock(), up to the switch
\* the waiting sets after the insert of lines 98-102
announce_readers(me, w) == IF w THEN waiting_readers ELSE waiting_readers \cup {me}
announce_writers(me, w) == IF w THEN waiting_writers \cup {me} ELSE waiting_writers

\* mutant: the reentrancy assertions are missing
announce_unchecked(h, me) == TRUE

\* the assertions of lines 106 and 110
announce_ok(h, me) ==
    /\ h.kind = "Write" => h.writer /= me
    /\ h.kind = "Read" => me \notin h.readers

\* mutant: the caller is blocked by readers only, not by a writer
announce_blocks_read_only(h, w) == h.kind = "Read" /\ w

\* does the match of lines 104-116 block the caller
announce_blocks(h, w) ==
    \/ h.kind = "Write"
    \/ h.kind = "Read" /\ w

lock_announce(me, w) ==
    /\ waiting_readers' = announce_readers(me, w)
    /\ waiting_writers' = announce_writers(me, w)
    /\ remaining' = remaining - 1
    /\ write' = [write EXCEPT ![me] = w]
    /\ IF announce_ok(holder, me)
       THEN /\ task_state' = IF announce_blocks(holder, w)
                             THEN block(task_state, me)
                             ELSE task_state
            /\ pc' = [pc EXCEPT ![me] = "acquire_switch"]
            /\ yields' = switch(call_enter(yields, me), me)
            /\ failed' = failed
       ELSE /\ failed' = "reentrant"
            /\ yields' = call_enter(yields, me)
            /\ UNCHANGED <<task_state, pc>>
    /\ UNCHANGED <<holder, guard, inner, modified, consumed, returned, woken, winners>>

\* read() / write() called by a task that holds no guard of this lock
Lock(me, w) ==
    /\ Live
    /\ pc[me] = "idle"
    /\ remaining > 0
    /\ lock_announce(me, w)

\* read() / write() called by a task that still holds a guard of this lock
Relock(me, w) ==
    /\ Live
    /\ pc[me] = "holding"
    /\ remaining > 0
    /\ lock_announce(me, w)

\* --------------------------------------------- lock(), after the switch
\* mutant: the commit takes the lock whatever the holder is
commit_holder_any(w, h, me) ==
    IF w THEN HolderWrite(me)
    ELSE IF h.kind = "Read" THEN HolderRead(h.readers \cup {me}) ELSE HolderRead({me})

\* mutant: the arm that lets a reader join the current readers is missing
commit_holder_no_join(w, h, me) ==
    CASE w /\ h.kind = "None" -> HolderWrite(me)
      [] ~w /\ h.kind = "None" -> HolderRead({me})
      [] OTHER -> HolderPanic

\* the match of lines 126-144: the new holder, or HolderPanic
commit_holder(w, h, me) ==
    CASE w /\ h.kind = "None" -> HolderWrite(me)
      [] ~w /\ h.kind = "None" -> HolderRead({me})
      [] ~w /\ h.kind = "Read" -> HolderRead(h.readers \cup {me})
      [] OTHER -> HolderPanic

\* mutant: block_waiters visits the waiting writers only
block_waiters_writers_only(readers, writers) == writers

\* the tasks block_waiters visits
block_waiters_set(readers, writers) == readers \cup writers

\* mutant: the winner of the race does not block the losers
block_waiters_skipped(ts, readers, writers) == ts

\* block_waiters: every visited task is blocked
block_waiters(ts, readers, writers) ==
    [tid \in Tasks |->
        IF tid \in block_waiters_set(readers, writers) THEN block(ts, tid)[tid] ELSE ts[tid]]

\* inner.try_read() / inner.try_write() of the native lock
try_read(g) == \A t \in Tasks : g[t] /= "write"
try_write(g) == \A t \in Tasks : g[t] = "none"

\* mutant: a committing writer stays recorded in waiting_writers
commit_writers_kept(me, w) == waiting_writers

\* the waiting sets after the removals of lines 145-150
commit_writers(me, w) == IF w THEN waiting_writers \ {me} ELSE waiting_writers
commit_readers(me, w) == (IF w THEN waiting_readers ELSE waiting_readers \ {me}) \ {me}

Commit(me) ==
    /\ Live
    /\ pc[me] = "acquire_switch"
    /\ task_state[me] = "Runnable"
    /\ LET h == commit_holder(write[me], holder, me)
           wr == commit_readers(me, write[me])
           ww == commit_writers(me, write[me])
       IN  IF h = HolderPanic
           THEN /\ failed' = "resume"
                /\ UNCHANGED <<holder, waiting_readers, waiting_writers, task_state,
                               pc, guard, winners>>
           ELSE /\ holder' = h
                /\ waiting_readers' = wr
                /\ waiting_writers' = ww
                /\ IF me \in block_waiters_set(wr, ww)
                   THEN /\ failed' = "self_waiter"
                        /\ UNCHANGED <<task_state, pc, guard, winners>>
                   ELSE /\ task_state' = block_waiters(task_state, wr, ww)
                        /\ IF (IF write[me] THEN try_write(guard) ELSE try_read(guard))
                           THEN /\ guard' = [guard EXCEPT ![me] =
                                                IF write[me] THEN "write" ELSE "read"]
                                /\ pc' = [pc EXCEPT ![me] = "holding"]
                                /\ failed' = failed
                                /\ winners' = IF me \in woken THEN winners \cup {me}
                                                              ELSE winners
                           ELSE /\ failed' = "out_of_sync"
                                /\ UNCHANGED <<pc, guard, winners>>
    /\ UNCHANGED <<write, inner, modified, remaining, consumed, returned, yields,
                   woken>>

\* ------------------------------------------------------------ guard drops
\* mutant: unblock_waiters visits the waiting readers only
unblock_waiters_readers_only(readers, writers) == readers

\* the tasks unblock_waiters visits
unblock_waiters_set(readers, writers) == readers \cup writers

\* mutant: only the strict pass unblocks, the maybe pass does nothing
unblock_waiters_strict_only(ts, readers, writers, should_be_blocked) ==
    [tid \in Tasks |->
        IF tid \in unblock_waiters_set(readers, writers) /\ should_be_blocked
        THEN unblock(ts, tid)[tid]
        ELSE ts[tid]]

\* unblock_waiters: strict unblock or maybe_unblock of every visited task
unblock_waiters(ts, readers, writers, should_be_blocked) ==
    [tid \in Tasks |->
        IF tid \in unblock_waiters_set(readers, writers)
        THEN IF should_be_blocked THEN unblock(ts, tid)[tid] ELSE maybe_unblock(ts, tid)[tid]
        ELSE ts[tid]]

\* mutant: a leaving reader unlocks even when other readers remain
read_exit_always_none(h, me) ==
    IF h.kind = "Read" THEN HolderNone ELSE HolderPanic

\* mutant: the last reader leaves an empty Read behind
read_exit_keeps_read(h, me) ==
    IF h.kind = "Read" THEN HolderRead(h.readers \ {me}) ELSE HolderPanic

\* the match of lines 213-221: the holder after a reader left, or HolderPanic
read_exit_holder(h, me) ==
    IF h.kind = "Read"
    THEN IF h.readers \ {me} = {} THEN HolderNone ELSE HolderRead(h.readers \ {me})
    ELSE HolderPanic

\* lines 245-246: the holder after the writer left, or HolderPanic
write_exit_holder(h, me) ==
    IF h = HolderWrite(me) THEN HolderNone ELSE HolderPanic

\* what a drop does once the new holder is known (lines 222-226, 247-251)
release(me, h, should_be_blocked) ==
    /\ guard' = [guard EXCEPT ![me] = "none"]
    /\ IF h = HolderPanic
       THEN /\ failed' = IF should_be_blocked THEN "writer_exit" ELSE "reader_exit"
            /\ yields' = call_enter(yields, me)
            /\ UNCHANGED <<holder, task_state, pc, woken, winners>>
       ELSE /\ holder' = h
            /\ IF me \in unblock_waiters_set(waiting_readers, waiting_writers)
               THEN /\ failed' = "self_waiter"
                    /\ yields' = call_enter(yields, me)
                    /\ UNCHANGED <<task_state, pc, woken, winners>>
               ELSE /\ task_state' = unblock_waiters(task_state, waiting_readers,
                                                     waiting_writers, should_be_blocked)
                    /\ pc' = [pc EXCEPT ![me] = "release_switch"]
                    /\ yields' = switch(call_enter(yields, me), me)
                    /\ failed' = failed
                    /\ woken' = unblock_waiters_set(waiting_readers, waiting_writers)
                    /\ winners' = {}
    /\ UNCHANGED <<waiting_readers, waiting_writers, write, inner, modified,
                   remaining, consumed, returned>>

\* Drop for RwLockReadGuard
DropRead(me) ==
    /\ Live
    /\ pc[me] = "holding"
    /\ guard[me] = "read"
    /\ release(me, read_exit_holder(holder, me), FALSE)

\* Drop for RwLockWriteGuard
DropWrite(me) ==
    /\ Live
    /\ pc[me] = "holding"
    /\ guard[me] = "write"
    /\ release(me, write_exit_holder(holder, me), TRUE)

\* the scheduler resumes a task that yielded at the end of a drop; the drop
\* returns and the locals of the finished call are gone
Resume(me) ==
    /\ Live
    /\ pc[me] = "release_switch"
    /\ task_state[me] = "Runnable"
    /\ pc' = [pc EXCEPT ![me] = "idle"]
    /\ write' = [write EXCEPT ![me] = FALSE]
    /\ yields' = call_enter(yields, me)
    /\ UNCHANGED <<holder, waiting_readers, waiting_writers, task_state,
                   guard, inner, modified, remaining, consumed, returned, failed,
                   woken, winners>>

\* DerefMut for RwLockWriteGuard: the writer stores a value
Store(me, v) ==
    /\ Live
    /\ pc[me] = "holding"
    /\ guard[me] = "write"
    /\ v /= inner
    /\ inner' = v
    /\ modified' = TRUE
    /\ UNCHANGED <<holder, waiting_readers, waiting_writers, task_state, pc, write,
                   guard, remaining, consumed, returned, failed, yields, woken,
                   winners>>

\* ------------------------------------------------------ RwLock::into_inner
\* mutant: into_inner does not look at the holder
into_inner_unchecked(h) == TRUE

\* the assertion of line 89
into_inner_ok(h) == h = HolderNone

IntoInner ==
    /\ Live
    /\ IF into_inner_ok(holder)
       THEN /\ consumed' = TRUE
            /\ returned' = inner
            /\ failed' = failed
       ELSE /\ failed' = "into_inner"
            /\ UNCHANGED <<consumed, returned>>
    /\ UNCHANGED <<holder, waiting_readers, waiting_writers, task_state, pc, write,
                   guard, inner, modified, remaining, yields, woken, winners>>

\* ---------------------------------------------------------- specification
Next ==
    \/ \E me \in Tasks, w \in BOOLEAN : Lock(me, w)
    \/ \E me \in Tasks, w \in BOOLEAN : Relock(me, w)
    \/ \E me \in Tasks : Commit(me)
    \/ \E me \in Tasks : DropRead(me)
    \/ \E me \in Tasks : DropWrite(me)
    \/ \E me \in Tasks : Resume(me)
    \/ \E me \in Tasks, v \in Values : Store(me, v)
    \/ IntoInner

Spec == Init /\ [][Next]_vars

TypeOK ==
    /\ holder \in {HolderNone} \cup {HolderRead(r) : r \in SUBSET Tasks}
                              \cup {HolderWrite(t) : t \in Tasks}
    /\ waiting_readers \subseteq Tasks
    /\ waiting_writers \subseteq Tasks
    /\ task_state \in [Tasks -> {"Runnable", "Blocked"}]
    /\ pc \in [Tasks -> {"idle", "acquire_switch", "holding", "release_switch"}]
    /\ write \in [Tasks -> BOOLEAN]
    /\ guard \in [Tasks -> {"none", "read", "write"}]
    /\ inner \in Values
    /\ remaining \in 0..MaxAcq
    /\ yields \in [Tasks -> 0..1]

\* correct use only: no reentrant call, the lock is never consumed
NextUse ==
    \/ \E me \in Tasks, w \in BOOLEAN : Lock(me, w)
    \/ \E me \in Tasks : Commit(me)
    \/ \E me \in Tasks : DropRead(me)
    \/ \E me \in Tasks : DropWrite(me)
    \/ \E me \in Tasks : Resume(me)
    \/ \E me \in Tasks, v \in Values : Store(me, v)

SpecUse == Init /\ [][NextUse]_vars

\* correct use by readers only: no task ever requests write access
NextReaders ==
    \/ \E me \in Tasks : Lock(me, FALSE)
    \/ \E me \in Tasks : Commit(me)
    \/ \E me \in Tasks : DropRead(me)
    \/ \E me \in Tasks : Resume(me)

SpecReaders == Init /\ [][NextReaders]_vars

\* ------------------------------------------------------------------ claims
Waiters == waiting_readers \cup waiting_writers
ReadGuards == {t \in Tasks : guard[t] = "read"}
WriteGuards == {t \in Tasks : guard[t] = "write"}

\* a guard drop that ran to its yield point
IsRelease(t) == guard[t] /= "none" /\ pc[t] = "holding" /\ pc'[t] = "release_switch"
\* a commit step that ran to the end and handed out a guard
IsCommit(t) == pc[t] = "acquire_switch" /\ pc'[t] = "holding"
\* the announce part of a read() or write() call
IsCall(t) == remaining' < remaining /\ t \in Waiters' \ Waiters

\* C1: mutual exclusion.  At most one task owns a write guard, no task owns
\* a read guard while a task owns a write guard, and while holder is Write
\* no task but the writer owns a guard (while it is Read no task owns a
\* write guard).
C1_MutualExclusion ==
    /\ Cardinality(WriteGuards) <= 1
    /\ WriteGuards /= {} => ReadGuards = {}
    /\ holder.kind = "Write" => ReadGuards = {} /\ WriteGuards \subseteq {holder.writer}
    /\ holder.kind = "Read" => WriteGuards = {} /\ holder.readers /= {}

\* C1 witness: a writer holds the lock while readers and writers wait for it
C1_Witness ==
    \E t \in Tasks :
        /\ holder = HolderWrite(t)
        /\ guard[t] = "write"
        /\ waiting_readers /= {}
        /\ waiting_writers /= {}

\* C2: a writer waits for all readers.  A waiting writer that is blocked
\* stays blocked over every step after which the reader set is still
\* non-empty; in particular the drop of one of two read guards leaves it
\* blocked.
C2_WriterWaitsForAllReaders ==
    [][\A c \in waiting_writers :
          (task_state[c] = "Blocked" /\ holder'.kind = "Read" /\ holder'.readers /= {})
              => task_state'[c] = "Blocked"]_vars

\* C3: shared compatibility.  When no task ever requests write access, no
\* task recorded in waiting_readers is blocked.
C3_ReadersNeverBlocked ==
    \A t \in waiting_readers : task_state[t] = "Runnable"

\* C4: no lost wake-ups.  Right after a guard drop every task recorded in a
\* waiting set is runnable, and so is every task that was blocked before it.
C4_NoLostWakeup ==
    [][(\E t \in Tasks : IsRelease(t)) =>
          /\ \A u \in Waiters' : task_state'[u] = "Runnable"
          /\ \A u \in Tasks : task_state[u] = "Blocked" => task_state'[u] = "Runnable"]_vars

\* C4 witness: a write guard was just dropped and waiters of both kinds,
\* blocked by the exclusive hold, are runnable
C4_Witness ==
    \E t \in Tasks :
        /\ pc[t] = "release_switch"
        /\ write[t]
        /\ holder = HolderNone
        /\ waiting_readers /= {}
        /\ waiting_writers /= {}
        /\ \A u \in Waiters : task_state[u] = "Runnable"

\* C5: one race winner per release.  Of the waiters a guard drop visited at
\* most one has committed since that drop, and once one has, every other of
\* them that still waits is blocked.
C5_OneWinnerPerRelease ==
    /\ Cardinality(winners) <= 1
    /\ winners /= {} => \A u \in (woken \ winners) \cap Waiters : task_state[u] = "Blocked"

\* C5 witness: a drop visited two waiters or more, one of them committed and
\* another still waits
C5_Witness ==
    /\ Cardinality(woken) >= 2
    /\ Cardinality(winners) = 1
    /\ (woken \ winners) \cap Waiters /= {}
    /\ failed = "none"

\* C6: into_inner.  It panics exactly when called with holder other than
\* None, and then some guard is live; when it returns no guard is live and
\* the value is the stored one, the one given to new() if no write guard
\* stored into it.
C6_IntoInner ==
    /\ failed = "into_inner" => holder /= HolderNone /\ ReadGuards \cup WriteGuards /= {}
    /\ consumed => /\ holder = HolderNone
                   /\ ReadGuards \cup WriteGuards = {}
                   /\ returned = inner
                   /\ ~modified => returned = InitValue

\* C6 witness: into_inner was called while a guard was live
C6_Witness ==
    /\ failed = "into_inner"
    /\ ReadGuards \cup WriteGuards /= {}

\* C7: release restores consistency.  The drop of the write guard, or of the
\* last read guard, leaves holder None; every drop leaves both waiting sets
\* unchanged, and they are exactly the tasks that announced and have not
\* committed.
C7_ReleaseRestores ==
    [][\A t \in Tasks : IsRelease(t) =>
          /\ (holder = HolderWrite(t) \/ holder = HolderRead({t})) => holder' = HolderNone
          /\ holder.kind = "Read" /\ holder.readers \ {t} /= {}
                => holder' = HolderRead(holder.readers \ {t})
          /\ waiting_readers' = waiting_readers
          /\ waiting_writers' = waiting_writers
          /\ waiting_readers' = {u \in Tasks : pc'[u] = "acquire_switch" /\ ~write'[u]}
          /\ waiting_writers' = {u \in Tasks : pc'[u] = "acquire_switch" /\ write'[u]}]_vars

\* C7 witness: the last reader just dropped its guard with waiters present
C7_Witness ==
    \E t \in Tasks :
        /\ pc[t] = "release_switch"
        /\ ~write[t]
        /\ holder = HolderNone
        /\ Waiters /= {}

\* C8: reentrant acquisition.  A read() or write() call by the current
\* writer or by a current reader panics in the announce step: the caller is
\* not marked blocked and does not reach the yield point.
C8_ReentrantPanics ==
    [][\A t \in Tasks :
          (IsCall(t) /\ (holder = HolderWrite(t) \/ (holder.kind = "Read" /\ t \in holder.readers)))
              => /\ failed' = "reentrant"
                 /\ task_state' = task_state
                 /\ pc'[t] = pc[t]]_vars

\* C8 witness: a reader called the lock again and the call panicked
C8_Witness ==
    \E t \in Tasks :
        /\ failed = "reentrant"
        /\ holder.kind = "Read"
        /\ t \in holder.readers
        /\ t \in Waiters
        /\ task_state[t] = "Runnable"

\* C9: in correct use no task is resumed into a commit step that panics
\* with 'resumed a waiting thread'.
C9_NoInconsistentResume == failed /= "resume"

\* C10: re-block on commit.  Right after a commit step every task still
\* recorded in a waiting set is blocked.
C10_ReblockOnCommit ==
    [][(\E t \in Tasks : IsCommit(t)) =>
          \A u \in Waiters' : task_state'[u] = "Blocked"]_vars

\* C10 witness: a reader and a writer that were both runnable are blocked
\* by the commit of a reader
C10_Witness ==
    /\ holder.kind = "Read"
    /\ ReadGuards = holder.readers
    /\ \E u \in waiting_readers : task_state[u] = "Blocked"
    /\ \E u \in waiting_writers : task_state[u] = "Blocked"

\* C11: holder transitions.  Every step that changes holder is a commit from
\* None to Write(t) or Read({t}), a reader commit from Read(R) to
\* Read(R + {t}), a read-guard drop from Read(R) to Read(R - {t}) or to None
\* when t was the last reader, or the drop of t's write guard from Write(t)
\* to None.  In particular a writer commit observes None.
C11_HolderTransitions ==
    [][holder' /= holder =>
          \E t \in Tasks :
              \/ IsCommit(t) /\ write[t] /\ holder = HolderNone /\ holder' = HolderWrite(t)
              \/ IsCommit(t) /\ ~write[t] /\ holder = HolderNone /\ holder' = HolderRead({t})
              \/ IsCommit(t) /\ ~write[t] /\ holder.kind = "Read" /\ t \notin holder.readers
                    /\ holder' = HolderRead(holder.readers \cup {t})
              \/ IsRelease(t) /\ holder.kind = "Read" /\ t \in holder.readers
                    /\ holder.readers /= {t}
                    /\ holder' = HolderRead(holder.readers \ {t})
              \/ IsRelease(t) /\ holder = HolderRead({t}) /\ holder' = HolderNone
              \/ IsRelease(t) /\ holder = HolderWrite(t) /\ holder' = HolderNone]_vars

\* C11 witness: a writer that waited through a shared hold of two readers
\* has committed after the last of them left
C11_Witness ==
    \E t \in Tasks :
        /\ holder = HolderWrite(t)
        /\ guard[t] = "write"
        /\ winners = {t}
        /\ \A u \in Tasks \ {t} : pc[u] \in {"idle", "release_switch"} /\ ~write[u]
        /\ Cardinality({u \in Tasks : pc[u] = "release_switch"}) >= 1

\* C12 as claimed: while holder is Write every task recorded in a waiting
\* set is blocked.
C12_WaitersBlockedUnderWrite_Original ==
    holder.kind = "Write" => \A u \in Waiters : task_state[u] = "Blocked"

\* C12: while holder is Write and the execution has not panicked, every
\* task recorded in a waiting set is blocked, so the strict unblock of a
\* write-guard drop only meets blocked tasks.
C12_WaitersBlockedUnderWrite ==
    (holder.kind = "Write" /\ failed = "none")
        => \A u \in Waiters : task_state[u] = "Blocked"

\* C12 witness: every other task waits on the writer, readers and writers
C12_Witness ==
    /\ holder.kind = "Write"
    /\ failed = "none"
    /\ Waiters = Tasks \ {holder.writer}
    /\ waiting_readers /= {}
    /\ waiting_writers /= {}
    /\ \A u \in Waiters : task_state[u] = "Blocked"

\* C13: whenever holder is None no task recorded in a waiting set is blocked.
C13_NoBlockedWaiterWhenUnlocked ==
    holder = HolderNone => \A u \in Waiters : task_state[u] = "Runnable"

\* C13 witness: the last reader left and the writer it had kept waiting is
\* runnable
C13_Witness ==
    \E t \in Tasks :
        /\ pc[t] = "release_switch"
        /\ ~write[t]
        /\ holder = HolderNone
        /\ woken \cap waiting_writers /= {}
        /\ \A u \in Waiters : task_state[u] = "Runnable"

\* the tasks holder names
Holders == IF holder.kind = "Write" THEN {holder.writer} ELSE holder.readers

\* C14: holder agrees with the live guards.  holder is None iff no guard is
\* live, Write(w) iff the only live guard is w's write guard, Read(R) iff the
\* live guards are one read guard per task of R; so the native try_read /
\* try_write after a commit never fails and a guard is only dropped while
\* holder names the dropping task.
C14_HolderMatchesGuards ==
    /\ holder = HolderNone <=> ReadGuards \cup WriteGuards = {}
    /\ holder.kind = "Write" <=> WriteGuards /= {}
    /\ holder.kind = "Write" => WriteGuards = {holder.writer} /\ ReadGuards = {}
    /\ holder.kind = "Read" <=> ReadGuards /= {}
    /\ holder.kind = "Read" => ReadGuards = holder.readers /\ WriteGuards = {}
    /\ failed \notin {"out_of_sync", "reader_exit", "writer_exit"}

\* C14 witness: two read guards are live and a third task waits
C14_Witness ==
    /\ holder.kind = "Read"
    /\ Cardinality(holder.readers) = 2
    /\ ReadGuards = holder.readers
    /\ Waiters /= {}
    /\ failed = "none"

\* C15: in a state that has not panicked no task is both named by holder and
\* recorded in a waiting set, no task is recorded in both waiting sets, and
\* the 'tid != me' assertions of block_waiters and unblock_waiters never
\* fail.
C15_HolderNotWaiter ==
    /\ failed /= "self_waiter"
    /\ failed = "none" =>
          /\ Holders \cap Waiters = {}
          /\ waiting_readers \cap waiting_writers = {}
          /\ \A t \in waiting_writers : write[t]

\* C15 witness: a writer committed out of waiting_writers while another
\* writer stays recorded there
C15_Witness ==
    \E t \in Tasks :
        /\ holder = HolderWrite(t)
        /\ failed = "none"
        /\ t \notin Waiters
        /\ waiting_writers /= {}
        /\ waiting_readers = {}

\* C16: holder = Read(R) implies R is not empty.
C16_ReadersNonEmpty ==
    holder.kind = "Read" => holder.readers /= {}

\* C16 witness: one of two readers has dropped its guard and the other still
\* holds
C16_Witness ==
    \E t \in Tasks :
        /\ pc[t] = "release_switch"
        /\ ~write[t]
        /\ holder.kind = "Read"
        /\ Cardinality(holder.readers) = 1
        /\ t \notin holder.readers

\* the book-keeping record of the lock
LockState == <<holder, waiting_readers, waiting_writers>>
\* a drop returns: the task is resumed after the drop's yield point
IsReturn(t) == pc[t] = "release_switch" /\ pc'[t] = "idle"
\* the announce part of a call ran up to the yield point of lock()
IsAnnounce(t) == IsCall(t) /\ pc'[t] = "acquire_switch"

\* what C17 says of the steps, for acq yield points per acquire: an acquire
\* that completes has passed acq scheduling points and a drop that returns
\* has passed one; every step that changes the lock's record is an announce
\* that runs up to a yield point (or panics), a commit that starts at one,
\* or a drop that runs up to one, and the step that resumes a task after a
\* drop changes nothing of the record.
SuspensionPoints(acq) ==
    /\ \A t \in Tasks : IsCommit(t) => yields[t] = acq
    /\ \A t \in Tasks : IsReturn(t) => yields[t] = 1 /\ LockState' = LockState
    /\ LockState' /= LockState =>
          \E t \in Tasks :
              \/ IsAnnounce(t) /\ yields'[t] = 1
              \/ IsCall(t) /\ failed' = "reentrant"
              \/ IsCommit(t)
              \/ IsRelease(t) /\ yields'[t] = 1

\* C17 as claimed: two yield points per acquire, one per release.
C17_TwoYieldsPerAcquire == [][SuspensionPoints(2)]_vars

\* C17: every acquire passes through exactly one scheduling yield point (the
\* switch between announce and commit) and every guard release through
\* exactly one, and all mutations of the lock's record happen between two
\* consecutive yields.
C17_OneYieldPerAcquire == [][SuspensionPoints(1)]_vars

\* C17 witness: one task finished an acquire, another is suspended at the
\* yield point of its acquire and a third at the yield point of a drop
C17_Witness ==
    \E t, u, v \in Tasks :
        /\ pc[t] = "holding" /\ yields[t] = 1
        /\ pc[u] = "acquire_switch" /\ yields[u] = 1
        /\ pc[v] = "release_switch" /\ yields[v] = 1

\* every task has finished every acquisition it started and released it
AllDone == \A t \in Tasks : pc[t] = "idle"

\* C18: deadlock freedom and completion.  The tasks make finitely many
\* calls, so every run is finite and every task completes exactly when the
\* run cannot stop early: in every state in which some task has not finished
\* its acquisitions and releases, some task can take a step.
C18_NoStuckState == ~AllDone => ENABLED NextUse

\* C18, the part the code keeps: as long as nothing panicked, some task can
\* take a step whenever a task has not finished
C18_NoDeadlockBeforePanic == (failed = "none" /\ ~AllDone) => ENABLED NextUse

\* the scheduler may resume t now and t's commit then succeeds
CanWin(t) == ENABLED (Commit(t) /\ pc'[t] = "holding" /\ failed' = "none")

\* C19: no first-come-first-served order.  While the lock is unlocked every
\* waiter, whenever it announced, has a successful commit enabled, so the
\* winner is the one the scheduler resumes first; and while the lock is held
\* by readers every runnable waiting reader has a successful commit enabled,
\* whatever writers have been waiting before it.
C19_NoFifoOrder ==
    Live =>
        /\ holder = HolderNone => \A t \in Waiters : CanWin(t)
        /\ holder.kind = "Read" =>
              \A t \in waiting_readers : task_state[t] = "Runnable" => CanWin(t)

\* C19 witness: two writers were waiting at the last drop, which unlocked
\* the lock; they announced one after the other, none has committed yet and
\* either can win
C19_Witness ==
    \E w1, w2 \in woken \cap waiting_writers :
        /\ w1 /= w2
        /\ Live
        /\ holder = HolderNone
        /\ winners = {}
        /\ CanWin(w1)
        /\ CanWin(w2)

\* C19, the reader's case reached: a writer has waited since before the last
\* drop, a reader announced after that drop while readers hold, and the
\* reader can commit ahead of the writer
C19_ReaderAheadOfWriter ==
    \E w \in waiting_writers, t \in waiting_readers :
        /\ Live
        /\ holder.kind = "Read"
        /\ w \in woken
        /\ t \notin woken
        /\ CanWin(t)

====
